---- MODULE Spec2Model ----
(***************************************************************************)
(* Model of the CEP -> weather pipeline of golang-mvp-otel.                *)
(*                                                                         *)
(*   service-a (Gateway,  src/service-a/main.go):  POST /cep               *)
(*   service-b (Resolver, src/unnamed/part_000):   POST /weather           *)
(*   ViaCEP (Location Lookup) and WeatherAPI (Weather Lookup) are the      *)
(*   environment: every reply they can give is a nondeterministic input.   *)
(*                                                                         *)
(* Strings the code inspects character by character (the CEP) are          *)
(* sequences of Unicode code points.  Temperatures are fixed-point         *)
(* integers in hundredths of a degree, which represents the one-decimal    *)
(* provider readings and the results of both conversion formulas exactly.  *)
(***************************************************************************)
EXTENDS Integers, Sequences, FiniteSets, TLC

VARIABLES
    apiKey,     \* WEATHER_API_KEY of the Resolver's environment
    gwPc,       \* Gateway handler position: idle | awaitResolver | done
    gwReq,      \* the client's request to the Gateway
    gwOut,      \* the request the Gateway sent to the Resolver
    gwW,        \* the Gateway's http.ResponseWriter
    gwSpan,     \* errors recorded on the Gateway's request span
    gwCalls,    \* calls the Gateway issued to the Resolver for this request
    gwFwd,      \* how forwardToServiceB ended: none | doErr | readErr | writeErr | ok
    rvPc,       \* Resolver handler position: idle | awaitLocation | awaitWeather | done
    rvReq,      \* the request the Resolver is serving
    rvW,        \* the Resolver's http.ResponseWriter
    rvSpan,     \* errors recorded on the Resolver's request span
    locReply,   \* what getLocationFromCEP's client.Do returned
    wxReply,    \* what getWeatherFromAPI's client.Do returned
    location,   \* the city getLocationFromCEP returned
    locCalls,   \* the CEPs of the ViaCEP calls issued for this request
    wxCalls,    \* the queries of the WeatherAPI calls issued for this request
    cepIn,      \* SpecCEP: the string under validation
    cepPc,      \* SpecCEP: input | checked
    cepOkA,     \* SpecCEP: service-a's isValidCEP(cepIn)
    cepOkB      \* SpecCEP: service-b's isValidCEP(cepIn)

vars == <<apiKey, gwPc, gwReq, gwOut, gwW, gwSpan, gwCalls, gwFwd,
          rvPc, rvReq, rvW, rvSpan, locReply, wxReply, location, locCalls, wxCalls,
          cepIn, cepPc, cepOkA, cepOkB>>

pipelineVars == <<apiKey, gwPc, gwReq, gwOut, gwW, gwSpan, gwCalls, gwFwd,
                  rvPc, rvReq, rvW, rvSpan, locReply, wxReply, location, locCalls, wxCalls>>

cepVars == <<cepIn, cepPc, cepOkA, cepOkB>>

(***************************************************************************)
(* Bounds and program constants                                            *)
(***************************************************************************)
\* longest string handed to isValidCEP in SpecCEP
MaxLen == 9

\* the repetition count of the pattern `^\d{8}$`
CEPDigits == 8

StatusOK == 200
StatusBadRequest == 400
StatusNotFound == 404
StatusMethodNotAllowed == 405
StatusUnprocessableEntity == 422
StatusInternalServerError == 500

(***************************************************************************)
(* Characters (code points)                                                *)
(*   48 '0'   57 '9'   10 '\n'   45 '-'   32 ' '   1635 ARABIC-INDIC THREE *)
(***************************************************************************)
Digits == {48, 57}
NonDigits == {10, 45, 32, 1635}

(***************************************************************************)
(* regexp.MatchString(`^\d{8}$`, cep)                                      *)
(*                                                                         *)
(* The pattern is compiled to the instruction sequence                     *)
(*   <<"bol", "d", ..., "d", "eol">>                                      *)
(* Go's regexp (RE2 syntax, no flags): `^` matches at the beginning of the *)
(* text only, `$` at the end of the text only (not before a final          *)
(* newline), and the Perl class \d is ASCII [0-9].  MatchString reports    *)
(* whether the pattern matches anywhere in the string.                     *)
(***************************************************************************)
IsPerlDigit(c) == c >= 48 /\ c <= 57

EndOfText(s, pos) == pos = Len(s)

BeginOfText(s, pos) == pos = 0

CEPPattern == <<"bol">> \o [i \in 1..CEPDigits |-> "d"] \o <<"eol">>

\* the pattern without its end anchor
CEPPatternNoEnd == <<"bol">> \o [i \in 1..CEPDigits |-> "d"]

RECURSIVE MatchHere(_, _, _, _)
MatchHere(prog, pc, s, pos) ==
    IF pc > Len(prog) THEN TRUE
    ELSE IF prog[pc] = "bol" THEN BeginOfText(s, pos) /\ MatchHere(prog, pc + 1, s, pos)
    ELSE IF prog[pc] = "eol" THEN EndOfText(s, pos) /\ MatchHere(prog, pc + 1, s, pos)
    ELSE /\ pos < Len(s)
         /\ IsPerlDigit(s[pos + 1])
         /\ MatchHere(prog, pc + 1, s, pos + 1)

MatchString(prog, s) == \E start \in 0..Len(s) : MatchHere(prog, 1, s, start)

\* the pattern without its begin anchor
CEPPatternNoBegin == [i \in 1..CEPDigits |-> "d"] \o <<"eol">>

\* service-a's isValidCEP with the begin anchor left out of its pattern
isValidCEPNoBegin(cep) == MatchString(CEPPatternNoBegin, cep)

\* service-a's isValidCEP with the end anchor left out of its pattern
isValidCEPNoEnd(cep) == MatchString(CEPPatternNoEnd, cep)

\* service-a: isValidCEP
isValidCEPA(cep) == MatchString(CEPPattern, cep)

\* the pattern without its anchors
CEPPatternNoAnchors == [i \in 1..CEPDigits |-> "d"]

\* service-b's isValidCEP with both anchors left out of its pattern
isValidCEPNoAnchors(cep) == MatchString(CEPPatternNoAnchors, cep)

\* service-b: isValidCEP
isValidCEPB(cep) == MatchString(CEPPattern, cep)

(***************************************************************************)
(* Request bodies and encoding/json                                        *)
(*                                                                         *)
(* A body is [json, field, cep]:                                           *)
(*   json   "syntax"  not JSON (or empty)                                  *)
(*          "array"   JSON, but not an object                              *)
(*          "null"    the JSON value null                                  *)
(*          "object"  a JSON object                                        *)
(*   field  the object's "cep" member: "absent" | "number" | "string"      *)
(*   cep    the member's value when it is a string                         *)
(***************************************************************************)
Body(json, field, cep) == [json |-> json, field |-> field, cep |-> cep]

\* json.NewDecoder(r.Body).Decode(&req) into a zero CEPRequest
DecodeCEPRequest(body) ==
    IF body.json = "syntax" THEN [ok |-> FALSE, CEP |-> <<>>]
    ELSE IF body.json = "array" THEN [ok |-> FALSE, CEP |-> <<>>]
    ELSE IF body.json = "null" THEN [ok |-> TRUE, CEP |-> <<>>]
    ELSE IF body.field = "absent" THEN [ok |-> TRUE, CEP |-> <<>>]
    ELSE IF body.field = "number" THEN [ok |-> FALSE, CEP |-> <<>>]
    ELSE [ok |-> TRUE, CEP |-> body.cep]

\* json.Marshal(CEPRequest{CEP: cep})
MarshalCEPRequest(cep) == Body("object", "string", cep)

(***************************************************************************)
(* Response bodies: what a handler writes is a sequence of parts           *)
(***************************************************************************)
Part(kind, message, city, c, f, k) ==
    [kind |-> kind, message |-> message, city |-> city,
     temp_C |-> c, temp_F |-> f, temp_K |-> k]

\* fmt.Fprintln(w, msg) of http.Error
TextPart(msg) == Part("text", msg, "", 0, 0, 0)

\* json.NewEncoder(w).Encode(ErrorResponse{Message: message})
ErrorPart(message) == Part("error", message, "", 0, 0, 0)

\* json.NewEncoder(w).Encode(weather)
WeatherPart(weather) ==
    Part("weather", "", weather.City, weather.TempC, weather.TempF, weather.TempK)

(***************************************************************************)
(* net/http ResponseWriter                                                 *)
(* The status line and the headers go out with the first WriteHeader (or   *)
(* the first Write); later header changes and WriteHeader calls change     *)
(* nothing the client sees.  A status of 0 is "nothing written yet".       *)
(* Once the client's connection is broken a Write fails and delivers       *)
(* nothing.                                                                *)
(***************************************************************************)
NewWriter ==
    [wroteHeader |-> FALSE, status |-> 0, ctype |-> "", body |-> <<>>, broken |-> FALSE]

SetContentType(w, ct) == IF w.wroteHeader THEN w ELSE [w EXCEPT !.ctype = ct]

WriteHeader(w, code) ==
    IF w.wroteHeader THEN w ELSE [w EXCEPT !.wroteHeader = TRUE, !.status = code]

Write(w, parts) ==
    LET h == WriteHeader(w, StatusOK)
    IN  IF h.broken THEN h ELSE [h EXCEPT !.body = @ \o parts]

\* the error w.Write returns
WriteFails(w) == w.broken

\* http.Error(w, msg, code)
HttpError(w, msg, code) ==
    Write(WriteHeader(SetContentType(w, "text/plain; charset=utf-8"), code),
          <<TextPart(msg)>>)

\* service-a: writeErrorResponse (a failing Encode is only logged)
writeErrorResponseA(w, message, statusCode) ==
    Write(WriteHeader(SetContentType(w, "application/json"), statusCode),
          <<ErrorPart(message)>>)

\* service-b: writeErrorResponse
writeErrorResponseB(w, message, statusCode) ==
    Write(WriteHeader(SetContentType(w, "application/json"), statusCode),
          <<ErrorPart(message)>>)

(***************************************************************************)
(* Errors: Go's error values; Nil is the nil error                         *)
(***************************************************************************)
Nil == [isErr |-> FALSE, msg |-> ""]

Errorf(msg) == [isErr |-> TRUE, msg |-> msg]

\* span.RecordError(err): the event carries the error's text and whether the
\* response's status line had already gone out when it was recorded
RecordError(span, detail, w) ==
    Append(span, [detail |-> detail, headerWritten |-> w.wroteHeader])

(***************************************************************************)
(* The providers' replies, as client.Do and the body's decoding see them   *)
(*   kind "neterr": client.Do returned an error (refused, reset, timeout,  *)
(*                  cancelled context)                                     *)
(*   kind "http":   a response with a status and a body                    *)
(* A member missing from a decodable body decodes to Go's zero value       *)
(* (false, "", 0).                                                         *)
(***************************************************************************)
ViaCEPReply(kind, status, decodable, erro, localidade) ==
    [kind |-> kind, status |-> status, decodable |-> decodable,
     erro |-> erro, localidade |-> localidade]

NoViaCEPReply == ViaCEPReply("none", 0, FALSE, FALSE, "")

Localidades == {"", "Sao Paulo", "Curitiba"}

ViaCEPReplies ==
    {ViaCEPReply("neterr", 0, FALSE, FALSE, "")}
    \cup {ViaCEPReply("http", st, FALSE, FALSE, "") :
            st \in {StatusBadRequest, StatusInternalServerError}}
    \cup {ViaCEPReply("http", StatusOK, FALSE, FALSE, "")}
    \cup {ViaCEPReply("http", StatusOK, TRUE, e, l) : e \in BOOLEAN, l \in Localidades}

WeatherAPIReply(kind, status, decodable, name, c, f) ==
    [kind |-> kind, status |-> status, decodable |-> decodable,
     name |-> name, temp_c |-> c, temp_f |-> f]

NoWeatherAPIReply == WeatherAPIReply("none", 0, FALSE, "", 0, 0)

\* readings in hundredths of a degree
ProviderTempC == {0 - 320, 0, 2250, 2530}
ProviderTempF == {0, 7750}
ProviderNames == {"", "Sao Paulo", "Saint Paul"}

WeatherAPIReplies ==
    {WeatherAPIReply("neterr", 0, FALSE, "", 0, 0)}
    \cup {WeatherAPIReply("http", st, FALSE, "", 0, 0) : st \in {StatusBadRequest, 401}}
    \cup {WeatherAPIReply("http", StatusOK, FALSE, "", 0, 0)}
    \cup {WeatherAPIReply("http", StatusOK, TRUE, n, c, f) :
            n \in ProviderNames, c \in ProviderTempC, f \in ProviderTempF}

(***************************************************************************)
(* service-b: temperature conversion (hundredths of a degree)              *)
(***************************************************************************)
celsiusToFahrenheit(celsius) == (celsius * 18) \div 10 + 3200

celsiusToKelvin(celsius) == celsius + 27315

WeatherResponse(city, c, f, k) == [City |-> city, TempC |-> c, TempF |-> f, TempK |-> k]

NoWeather == WeatherResponse("", 0, 0, 0)

(***************************************************************************)
(* service-b: getLocationFromCEP, from client.Do's return on               *)
(***************************************************************************)
getLocationFromCEP(reply) ==
    IF reply.kind = "neterr"
    THEN [location |-> "", err |-> Errorf("failed to make request to ViaCEP")]
    ELSE IF reply.status # StatusOK
    THEN [location |-> "", err |-> Errorf("ViaCEP returned status")]
    ELSE IF ~reply.decodable
    THEN [location |-> "", err |-> Errorf("can not find zipcode")]
    ELSE IF reply.erro
    THEN [location |-> "", err |-> Errorf("can not find zipcode")]
    ELSE [location |-> reply.localidade, err |-> Nil]

\* LocationErrorResponse recognising only the message "CEP not found"
LocationErrorResponseOldMessage(err) ==
    IF err.msg = "CEP not found"
    THEN [message |-> "can not find zipcode", status |-> StatusNotFound]
    ELSE [message |-> "internal server error", status |-> StatusInternalServerError]

\* handleWeather: the status and message for a failed getLocationFromCEP
LocationErrorResponse(err) ==
    IF err.msg = "CEP not found" \/ err.msg = "can not find zipcode"
    THEN [message |-> "can not find zipcode", status |-> StatusNotFound]
    ELSE [message |-> "internal server error", status |-> StatusInternalServerError]

(***************************************************************************)
(* service-b: getWeatherFromAPI                                            *)
(***************************************************************************)
ApiKeys == {"", "your_weather_api_key_here", "abc123", "abc\n123"}

\* UseMockData without the test for the placeholder key
UseMockDataEmptyOnly(weatherAPIKey) == weatherAPIKey = ""

\* the mock branch is taken
UseMockData(weatherAPIKey) ==
    weatherAPIKey = "" \/ weatherAPIKey = "your_weather_api_key_here"

MockWeather(loc) ==
    LET tempC == 2250
    IN  WeatherResponse(loc, tempC, celsiusToFahrenheit(tempC), celsiusToKelvin(tempC))

\* http.NewRequestWithContext rejects a URL with a control character in it
NewRequestFails(weatherAPIKey) == weatherAPIKey = "abc\n123"

\* WeatherQuery with the location left out of the URL
WeatherQueryWithoutLocation(weatherAPIKey, loc) == [key |-> weatherAPIKey, q |-> ""]

\* the request to WeatherAPI: the key and the query-escaped location
WeatherQuery(weatherAPIKey, loc) == [key |-> weatherAPIKey, q |-> loc]

\* WeatherFromReply without the test of resp.StatusCode
WeatherFromReplyNoStatusCheck(reply) ==
    IF reply.kind = "neterr"
    THEN [weather |-> NoWeather, err |-> Errorf("failed to make request to WeatherAPI")]
    ELSE IF ~reply.decodable /\ reply.status = StatusOK
    THEN [weather |-> NoWeather, err |-> Errorf("failed to decode WeatherAPI response")]
    ELSE LET tempC == reply.temp_c
         IN  [weather |-> WeatherResponse(reply.name, tempC, celsiusToFahrenheit(tempC),
                                          celsiusToKelvin(tempC)),
              err |-> Nil]

\* WeatherFromReply passing on the provider's Fahrenheit reading
WeatherFromReplyProviderF(reply) ==
    IF reply.kind = "neterr"
    THEN [weather |-> NoWeather, err |-> Errorf("failed to make request to WeatherAPI")]
    ELSE IF reply.status # StatusOK
    THEN [weather |-> NoWeather, err |-> Errorf("WeatherAPI returned status")]
    ELSE IF ~reply.decodable
    THEN [weather |-> NoWeather, err |-> Errorf("failed to decode WeatherAPI response")]
    ELSE [weather |-> WeatherResponse(reply.name, reply.temp_c, reply.temp_f,
                                      celsiusToKelvin(reply.temp_c)),
          err |-> Nil]

\* from client.Do's return on
WeatherFromReply(reply) ==
    IF reply.kind = "neterr"
    THEN [weather |-> NoWeather, err |-> Errorf("failed to make request to WeatherAPI")]
    ELSE IF reply.status # StatusOK
    THEN [weather |-> NoWeather, err |-> Errorf("WeatherAPI returned status")]
    ELSE IF ~reply.decodable
    THEN [weather |-> NoWeather, err |-> Errorf("failed to decode WeatherAPI response")]
    ELSE LET tempC == reply.temp_c
             tempF == celsiusToFahrenheit(tempC)
             tempK == celsiusToKelvin(tempC)
         IN  [weather |-> WeatherResponse(reply.name, tempC, tempF, tempK), err |-> Nil]

(***************************************************************************)
(* Client requests                                                         *)
(***************************************************************************)
Methods == {"POST", "GET"}

\* "01001000", "99999999", "", "123", "123456789", "01001-000",
\* "01001000\n", "0100100\n", "0100100" followed by ARABIC-INDIC DIGIT THREE
Codes ==
    { <<48, 49, 48, 48, 49, 48, 48, 48>>,
      <<57, 57, 57, 57, 57, 57, 57, 57>>,
      <<>>,
      <<49, 50, 51>>,
      <<49, 50, 51, 52, 53, 54, 55, 56, 57>>,
      <<48, 49, 48, 48, 49, 45, 48, 48, 48>>,
      <<48, 49, 48, 48, 49, 48, 48, 48, 10>>,
      <<48, 49, 48, 48, 49, 48, 48, 10>>,
      <<48, 49, 48, 48, 49, 48, 48, 1635>> }

Bodies ==
    {Body("syntax", "absent", <<>>), Body("array", "absent", <<>>),
     Body("null", "absent", <<>>), Body("object", "absent", <<>>),
     Body("object", "number", <<>>)}
    \cup {Body("object", "string", c) : c \in Codes}

Request(method, body, via) == [method |-> method, body |-> body, via |-> via]

NoRequest == Request("", Body("syntax", "absent", <<>>), "")

(***************************************************************************)
(* Initial state: both handlers idle, the Resolver's environment chosen    *)
(***************************************************************************)
PipelineIdle ==
    /\ gwPc = "idle"
    /\ gwReq = NoRequest
    /\ gwOut = NoRequest
    /\ gwW = NewWriter
    /\ gwSpan = <<>>
    /\ gwCalls = 0
    /\ gwFwd = "none"
    /\ rvPc = "idle"
    /\ rvReq = NoRequest
    /\ rvW = NewWriter
    /\ rvSpan = <<>>
    /\ locReply = NoViaCEPReply
    /\ wxReply = NoWeatherAPIReply
    /\ location = ""
    /\ locCalls = <<>>
    /\ wxCalls = <<>>

Init ==
    /\ apiKey \in ApiKeys
    /\ PipelineIdle
    /\ cepIn = <<>>
    /\ cepPc = "off"
    /\ cepOkA = FALSE
    /\ cepOkB = FALSE

(***************************************************************************)
(* service-a: handleCEP up to forwardToServiceB's client.Do                *)
(***************************************************************************)
handleCEP(method, body) ==
    /\ gwReq' = Request(method, body, "client")
    /\ IF method # "POST"
       THEN /\ gwW' = HttpError(gwW, "Method not allowed", StatusMethodNotAllowed)
            /\ gwPc' = "done"
            /\ UNCHANGED <<gwOut, gwSpan, gwCalls>>
       ELSE LET req == DecodeCEPRequest(body)
            IN  IF ~req.ok
                THEN /\ gwSpan' = RecordError(gwSpan, "json: cannot decode request body", gwW)
                     /\ gwW' = writeErrorResponseA(gwW, "invalid request body", StatusBadRequest)
                     /\ gwPc' = "done"
                     /\ UNCHANGED <<gwOut, gwCalls>>
                ELSE IF ~isValidCEPA(req.CEP)
                THEN /\ gwW' = writeErrorResponseA(gwW, "invalid zipcode",
                                                   StatusUnprocessableEntity)
                     /\ gwPc' = "done"
                     /\ UNCHANGED <<gwOut, gwSpan, gwCalls>>
                ELSE /\ gwOut' = Request("POST", MarshalCEPRequest(req.CEP), "gateway")
                     /\ gwCalls' = gwCalls + 1
                     /\ gwPc' = "awaitResolver"
                     /\ UNCHANGED <<gwW, gwSpan>>

HandleCEP ==
    /\ gwPc = "idle"
    /\ rvPc = "idle"
    /\ \E method \in Methods, body \in Bodies : handleCEP(method, body)
    /\ UNCHANGED <<apiKey, gwFwd, rvPc, rvReq, rvW, rvSpan, locReply, wxReply,
                   location, locCalls, wxCalls>>
    /\ UNCHANGED cepVars

(***************************************************************************)
(* service-a: forwardToServiceB, client.Do fails (connection refused,      *)
(* timeout, reset); handleCEP then answers with the error response         *)
(***************************************************************************)
ForwardFails ==
    /\ gwPc = "awaitResolver"
    /\ gwFwd' = "doErr"
    /\ gwSpan' = RecordError(gwSpan, "failed to make request to Service B", gwW)
    /\ gwW' = writeErrorResponseA(gwW, "internal server error", StatusInternalServerError)
    /\ gwPc' = "done"
    /\ UNCHANGED <<apiKey, gwReq, gwOut, gwCalls,
                   rvPc, rvReq, rvW, rvSpan, locReply, wxReply, location, locCalls, wxCalls>>
    /\ UNCHANGED cepVars

(***************************************************************************)
(* service-a: forwardToServiceB, client.Do returns the Resolver's response *)
(* The status line goes out first; then the body is read (which may fail)  *)
(* and written (which fails when the client has gone away).  On either     *)
(* error handleCEP records it and calls writeErrorResponse.                *)
(***************************************************************************)
\* CopyResponseHeader without the WriteHeader(resp.StatusCode)
CopyResponseHeaderNoStatus(w, resp) == SetContentType(w, "application/json")

\* "Copy response": the header and status line of the relayed response
CopyResponseHeader(w, resp) ==
    WriteHeader(SetContentType(w, "application/json"), resp.status)

forwardResponse(resp, readOk, clientOk) ==
    LET h == CopyResponseHeader(gwW, resp)
        c == IF clientOk THEN h ELSE [h EXCEPT !.broken = TRUE]
    IN  IF ~readOk
        THEN /\ gwFwd' = "readErr"
             /\ gwSpan' = RecordError(gwSpan, "failed to read response body", c)
             /\ gwW' = writeErrorResponseA(c, "internal server error",
                                           StatusInternalServerError)
        ELSE IF WriteFails(c)
        THEN /\ gwFwd' = "writeErr"
             /\ gwSpan' = RecordError(gwSpan, "failed to write response body", c)
             /\ gwW' = writeErrorResponseA(Write(c, resp.body), "internal server error",
                                           StatusInternalServerError)
        ELSE /\ gwFwd' = "ok"
             /\ gwW' = Write(c, resp.body)
             /\ UNCHANGED gwSpan

ForwardResponse ==
    /\ gwPc = "awaitResolver"
    /\ rvPc = "done"
    /\ rvReq.via = "gateway"
    /\ \E readOk \in BOOLEAN, clientOk \in BOOLEAN : forwardResponse(rvW, readOk, clientOk)
    /\ gwPc' = "done"
    /\ UNCHANGED <<apiKey, gwReq, gwOut, gwCalls,
                   rvPc, rvReq, rvW, rvSpan, locReply, wxReply, location, locCalls, wxCalls>>
    /\ UNCHANGED cepVars

(***************************************************************************)
(* service-b: handleWeather up to getLocationFromCEP's client.Do           *)
(***************************************************************************)
handleWeather(req) ==
    /\ rvReq' = req
    /\ IF req.method # "POST"
       THEN /\ rvW' = HttpError(rvW, "Method not allowed", StatusMethodNotAllowed)
            /\ rvPc' = "done"
            /\ UNCHANGED <<rvSpan, locCalls>>
       ELSE LET r == DecodeCEPRequest(req.body)
            IN  IF ~r.ok
                THEN /\ rvSpan' = RecordError(rvSpan, "json: cannot decode request body", rvW)
                     /\ rvW' = writeErrorResponseB(rvW, "invalid request body", StatusBadRequest)
                     /\ rvPc' = "done"
                     /\ UNCHANGED locCalls
                ELSE IF ~isValidCEPB(r.CEP)
                THEN /\ rvW' = writeErrorResponseB(rvW, "invalid zipcode",
                                                   StatusUnprocessableEntity)
                     /\ rvPc' = "done"
                     /\ UNCHANGED <<rvSpan, locCalls>>
                ELSE /\ locCalls' = Append(locCalls, r.CEP)
                     /\ rvPc' = "awaitLocation"
                     /\ UNCHANGED <<rvW, rvSpan>>

\* the Resolver takes the request the Gateway sent
ServeGateway ==
    /\ gwPc = "awaitResolver"
    /\ rvPc = "idle"
    /\ handleWeather(gwOut)
    /\ UNCHANGED <<apiKey, gwPc, gwReq, gwOut, gwW, gwSpan, gwCalls, gwFwd,
                   locReply, wxReply, location, wxCalls>>
    /\ UNCHANGED cepVars

\* a client calls the Resolver's /weather itself
ServeDirect ==
    /\ gwPc = "idle"
    /\ rvPc = "idle"
    /\ \E method \in Methods, body \in Bodies : handleWeather(Request(method, body, "client"))
    /\ UNCHANGED <<apiKey, gwPc, gwReq, gwOut, gwW, gwSpan, gwCalls, gwFwd,
                   locReply, wxReply, location, wxCalls>>
    /\ UNCHANGED cepVars

(***************************************************************************)
(* service-b: ViaCEP's reply arrives; handleWeather goes on through        *)
(* getWeatherFromAPI up to its client.Do (or to the end, on an error or in *)
(* the mock branch)                                                        *)
(***************************************************************************)
\* locationReply without the return after the error response: handleWeather goes on
\* to getWeatherFromAPI with the empty location
locationReplyNoReturn(reply) ==
    LET loc == getLocationFromCEP(reply)
        e == LocationErrorResponse(loc.err)
    IN  /\ location' = loc.location
        /\ IF UseMockData(apiKey)
           THEN /\ rvSpan' = IF loc.err.isErr THEN RecordError(rvSpan, loc.err.msg, rvW) ELSE rvSpan
                /\ rvW' = IF loc.err.isErr
                          THEN writeErrorResponseB(rvW, e.message, e.status)
                          ELSE Write(WriteHeader(SetContentType(rvW, "application/json"),
                                                 StatusOK),
                                     <<WeatherPart(MockWeather(loc.location))>>)
                /\ rvPc' = "done"
                /\ UNCHANGED wxCalls
           ELSE IF NewRequestFails(apiKey)
           THEN /\ rvSpan' = RecordError(rvSpan, "failed to create request", rvW)
                /\ rvW' = writeErrorResponseB(rvW, "internal server error",
                                              StatusInternalServerError)
                /\ rvPc' = "done"
                /\ UNCHANGED wxCalls
           ELSE /\ rvSpan' = IF loc.err.isErr THEN RecordError(rvSpan, loc.err.msg, rvW) ELSE rvSpan
                /\ rvW' = IF loc.err.isErr
                          THEN writeErrorResponseB(rvW, e.message, e.status)
                          ELSE rvW
                /\ wxCalls' = Append(wxCalls, WeatherQuery(apiKey, loc.location))
                /\ rvPc' = "awaitWeather"

locationReply(reply) ==
    LET loc == getLocationFromCEP(reply)
    IN  IF loc.err.isErr
        THEN LET e == LocationErrorResponse(loc.err)
             IN  /\ rvSpan' = RecordError(rvSpan, loc.err.msg, rvW)
                 /\ rvW' = writeErrorResponseB(rvW, e.message, e.status)
                 /\ rvPc' = "done"
                 /\ UNCHANGED <<location, wxCalls>>
        ELSE /\ location' = loc.location
             /\ IF UseMockData(apiKey)
                THEN /\ rvW' = Write(WriteHeader(SetContentType(rvW, "application/json"),
                                                 StatusOK),
                                     <<WeatherPart(MockWeather(loc.location))>>)
                     /\ rvPc' = "done"
                     /\ UNCHANGED <<rvSpan, wxCalls>>
                ELSE IF NewRequestFails(apiKey)
                THEN /\ rvSpan' = RecordError(rvSpan, "failed to create request", rvW)
                     /\ rvW' = writeErrorResponseB(rvW, "internal server error",
                                                   StatusInternalServerError)
                     /\ rvPc' = "done"
                     /\ UNCHANGED wxCalls
                ELSE /\ wxCalls' = Append(wxCalls, WeatherQuery(apiKey, loc.location))
                     /\ rvPc' = "awaitWeather"
                     /\ UNCHANGED <<rvW, rvSpan>>

LocationReply ==
    /\ rvPc = "awaitLocation"
    /\ \E reply \in ViaCEPReplies : locReply' = reply /\ locationReply(reply)
    /\ UNCHANGED <<apiKey, gwPc, gwReq, gwOut, gwW, gwSpan, gwCalls, gwFwd,
                   rvReq, wxReply, locCalls>>
    /\ UNCHANGED cepVars

(***************************************************************************)
(* service-b: WeatherAPI's reply arrives; handleWeather runs to its end    *)
(***************************************************************************)
weatherReply(reply) ==
    LET r == WeatherFromReply(reply)
    IN  IF r.err.isErr
        THEN /\ rvSpan' = RecordError(rvSpan, r.err.msg, rvW)
             /\ rvW' = writeErrorResponseB(rvW, "internal server error",
                                           StatusInternalServerError)
        ELSE /\ rvW' = Write(WriteHeader(SetContentType(rvW, "application/json"), StatusOK),
                             <<WeatherPart(r.weather)>>)
             /\ UNCHANGED rvSpan

WeatherReply ==
    /\ rvPc = "awaitWeather"
    /\ \E reply \in WeatherAPIReplies : wxReply' = reply /\ weatherReply(reply)
    /\ rvPc' = "done"
    /\ UNCHANGED <<apiKey, gwPc, gwReq, gwOut, gwW, gwSpan, gwCalls, gwFwd,
                   rvReq, locReply, location, locCalls, wxCalls>>
    /\ UNCHANGED cepVars

(***************************************************************************)
(* Both handlers have returned: the next request finds fresh handlers      *)
(* (nothing is kept from one request to the next)                          *)
(***************************************************************************)
NextRequest ==
    /\ gwPc \in {"idle", "done"}
    /\ rvPc \in {"idle", "done"}
    /\ gwPc = "done" \/ rvPc = "done"
    /\ gwPc' = "idle"
    /\ gwReq' = NoRequest
    /\ gwOut' = NoRequest
    /\ gwW' = NewWriter
    /\ gwSpan' = <<>>
    /\ gwCalls' = 0
    /\ gwFwd' = "none"
    /\ rvPc' = "idle"
    /\ rvReq' = NoRequest
    /\ rvW' = NewWriter
    /\ rvSpan' = <<>>
    /\ locReply' = NoViaCEPReply
    /\ wxReply' = NoWeatherAPIReply
    /\ location' = ""
    /\ locCalls' = <<>>
    /\ wxCalls' = <<>>
    /\ UNCHANGED apiKey
    /\ UNCHANGED cepVars

Next ==
    \/ HandleCEP
    \/ ForwardFails
    \/ ForwardResponse
    \/ ServeGateway
    \/ ServeDirect
    \/ LocationReply
    \/ WeatherReply
    \/ NextRequest

Spec == Init /\ [][Next]_vars

(***************************************************************************)
(* SpecCEP: isValidCEP of both services on every digit string of up to     *)
(* MaxLen characters and on each of them with one character replaced by a  *)
(* non-digit                                                               *)
(***************************************************************************)
OneReplaced(d) ==
    {[d EXCEPT ![i] = c] : i \in DOMAIN d, c \in NonDigits}

InitCEP ==
    /\ apiKey = ""
    /\ PipelineIdle
    /\ \E n \in 0..MaxLen : \E d \in [1..n -> Digits] : cepIn \in {d} \cup OneReplaced(d)
    /\ cepPc = "input"
    /\ cepOkA = FALSE
    /\ cepOkB = FALSE

ValidateCEP ==
    /\ cepPc = "input"
    /\ cepOkA' = isValidCEPA(cepIn)
    /\ cepOkB' = isValidCEPB(cepIn)
    /\ cepPc' = "checked"
    /\ UNCHANGED cepIn
    /\ UNCHANGED pipelineVars

NextCEP == ValidateCEP

SpecCEP == InitCEP /\ [][NextCEP]_vars

(***************************************************************************)
(* Properties                                                              *)
(***************************************************************************)
\* the format rule as the specification words it: exactly 8 ASCII decimal digits
ExactlyEightDigits(str) ==
    /\ Len(str) = 8
    /\ \A i \in 1..Len(str) : str[i] \in 48..57

ErrorBody(message) == <<ErrorPart(message)>>

\* ViaCEP answered 200 with the not-found flag set
LocationNotFound ==
    /\ locReply.kind = "http"
    /\ locReply.status = StatusOK
    /\ locReply.decodable
    /\ locReply.erro

\* ViaCEP answered 200 with a decodable body and no not-found flag
LocationResolved ==
    /\ locReply.kind = "http"
    /\ locReply.status = StatusOK
    /\ locReply.decodable
    /\ ~locReply.erro

\* the ViaCEP call failed otherwise: network error, non-200 status, undecodable body
LocationOtherFailure ==
    \/ locReply.kind = "neterr"
    \/ locReply.kind = "http" /\ locReply.status # StatusOK
    \/ locReply.kind = "http" /\ locReply.status = StatusOK /\ ~locReply.decodable

\* the WeatherAPI call failed: network error, non-200 status, undecodable body
WeatherFailure ==
    \/ wxReply.kind = "neterr"
    \/ wxReply.kind = "http" /\ wxReply.status # StatusOK
    \/ wxReply.kind = "http" /\ wxReply.status = StatusOK /\ ~wxReply.decodable

\* C1: when ViaCEP signals not-found (200 with the erro flag) for a request the
\* Resolver validated, the Resolver answers 404 "can not find zipcode" and has issued
\* no WeatherAPI call for that request.
C1_NotFoundIs404 ==
    LocationNotFound =>
        /\ rvPc = "done"
        /\ rvW.status = StatusNotFound
        /\ rvW.body = ErrorBody("can not find zipcode")
        /\ wxCalls = <<>>

C1_Witness ==
    /\ LocationNotFound
    /\ rvReq.method = "POST"
    /\ ExactlyEightDigits(DecodeCEPRequest(rvReq.body).CEP)
    /\ rvW.status = StatusNotFound

\* C2: every ViaCEP failure other than the not-found signal (network error, non-200
\* status, undecodable body) makes the Resolver answer 500 "internal server error".
C2_OtherLocationFailureIs500 ==
    LocationOtherFailure =>
        /\ rvPc = "done"
        /\ rvW.status = StatusInternalServerError
        /\ rvW.body = ErrorBody("internal server error")

\* C3: once a WeatherAPI call was made (location resolved, real credential), every
\* failure of it (network error, non-200 status, undecodable body) makes the Resolver
\* answer 500 "internal server error".
C3_WeatherFailureIs500 ==
    WeatherFailure =>
        /\ rvPc = "done"
        /\ rvW.status = StatusInternalServerError
        /\ rvW.body = ErrorBody("internal server error")

C3_Witness ==
    /\ WeatherFailure
    /\ wxReply.kind = "http"
    /\ LocationResolved
    /\ ~(apiKey \in {"", "your_weather_api_key_here"})
    /\ Len(wxCalls) = 1
    /\ rvW.status = StatusInternalServerError

\* C4: a POST to /cep whose body parsed and whose code is not exactly 8 digits is
\* answered 422 "invalid zipcode"; and the Gateway calls the Resolver only for a POST
\* whose body parsed and whose code is exactly 8 digits.
C4_InvalidCodeNeverForwarded ==
    LET req == DecodeCEPRequest(gwReq.body)
        accepted == gwReq.method = "POST" /\ req.ok /\ ExactlyEightDigits(req.CEP)
    IN  /\ (gwPc # "idle" /\ gwReq.method = "POST" /\ req.ok /\ ~ExactlyEightDigits(req.CEP))
              => /\ gwPc = "done"
                 /\ gwW.status = StatusUnprocessableEntity
                 /\ gwW.body = ErrorBody("invalid zipcode")
        /\ (gwPc # "idle" /\ ~accepted)
              => /\ gwCalls = 0
                 /\ gwOut = NoRequest
                 /\ rvPc = "idle"
        /\ gwCalls > 0 => accepted

C4_Witness ==
    /\ gwPc = "done"
    /\ gwReq.method = "POST"
    /\ gwReq.body = Body("object", "string", <<49, 50, 51>>)
    /\ gwW.status = StatusUnprocessableEntity
    /\ gwCalls = 0

\* C5: isValidCEP of either service accepts a string if and only if it is exactly
\* 8 ASCII decimal digits.
C5_ValidIffEightDigits ==
    cepPc = "checked" =>
        /\ cepOkA <=> ExactlyEightDigits(cepIn)
        /\ cepOkB <=> ExactlyEightDigits(cepIn)

C5_Witness ==
    /\ cepPc = "checked"
    /\ cepOkA
    /\ cepOkB
    /\ cepIn = <<48, 57, 48, 48, 57, 48, 48, 48>>

\* C6: when the Gateway's call ended with the Resolver's response received whole
\* (and the client there to take it), the Gateway's response has the Resolver's
\* status code, content type and body.
C6_RelayedVerbatim ==
    gwFwd = "ok" =>
        /\ gwW.status = rvW.status
        /\ gwW.ctype = rvW.ctype
        /\ gwW.body = rvW.body

C6_Witness ==
    /\ gwFwd = "ok"
    /\ gwPc = "done"
    /\ rvW.status = StatusNotFound
    /\ gwW.body = ErrorBody("can not find zipcode")

\* C7: when the Gateway's call fails at the transport level (client.Do fails, or
\* reading the Resolver's body fails after its headers came), the client gets status
\* 500 with "internal server error" and nothing else (the client being there to
\* receive it).
C7_TransportFailureIs500 ==
    (gwFwd \in {"doErr", "readErr"} /\ ~gwW.broken) =>
        /\ gwW.status = StatusInternalServerError
        /\ gwW.ctype = "application/json"
        /\ gwW.body = ErrorBody("internal server error")

\* C8: with the weather credential empty or the placeholder, no WeatherAPI call is
\* ever issued, and a resolved location is answered 200 with that location as city
\* and 22.5 C, 72.5 F, 295.65 K.
C8_MockWithoutCredential ==
    apiKey \in {"", "your_weather_api_key_here"} =>
        /\ wxCalls = <<>>
        /\ wxReply = NoWeatherAPIReply
        /\ rvPc # "awaitWeather"
        /\ LocationResolved =>
              /\ rvPc = "done"
              /\ rvW.status = StatusOK
              /\ rvW.body = <<Part("weather", "", locReply.localidade, 2250, 7250, 29565)>>

C8_Witness ==
    /\ apiKey = "your_weather_api_key_here"
    /\ LocationResolved
    /\ locReply.localidade = "Sao Paulo"
    /\ rvW.status = StatusOK
    /\ rvW.body[1].city = "Sao Paulo"

\* C9: in every 200 result of the Resolver, mock or real, temp_F = temp_C * 1.8 + 32
\* and temp_K = temp_C + 273.15, temp_C being the reading obtained (the provider's
\* temp_c, or the mock 22.5); the provider's temp_f is not what is reported.
C9_ConversionsConsistent ==
    rvW.status = StatusOK =>
        /\ Len(rvW.body) = 1
        /\ rvW.body[1].kind = "weather"
        /\ rvW.body[1].temp_F * 10 = rvW.body[1].temp_C * 18 + 32000
        /\ rvW.body[1].temp_K * 100 = rvW.body[1].temp_C * 100 + 2731500
        /\ rvW.body[1].temp_C = IF wxReply.kind = "http" THEN wxReply.temp_c ELSE 2250

C9_Witness ==
    /\ rvW.status = StatusOK
    /\ wxReply.kind = "http"
    /\ wxReply.temp_c = 2530
    /\ wxReply.temp_f = 7750
    /\ rvW.body[1].temp_F = 7754

\* C10: every 200 result of the Resolver has a non-empty city.
C10_CityNonEmpty ==
    rvW.status = StatusOK => \A i \in 1..Len(rvW.body) : rvW.body[i].city # ""

\* C11: the Resolver answers 422 "invalid zipcode" to every POST whose body parsed
\* and whose code is not exactly 8 digits, whoever sent it, without calling ViaCEP or
\* WeatherAPI; every code ViaCEP is called with is exactly 8 ASCII digits.
C11_ResolverRevalidates ==
    LET req == DecodeCEPRequest(rvReq.body)
    IN  /\ (rvPc # "idle" /\ rvReq.method = "POST" /\ req.ok /\ ~ExactlyEightDigits(req.CEP))
              => /\ rvPc = "done"
                 /\ rvW.status = StatusUnprocessableEntity
                 /\ rvW.body = ErrorBody("invalid zipcode")
                 /\ locCalls = <<>>
                 /\ wxCalls = <<>>
        /\ \A i \in 1..Len(locCalls) : ExactlyEightDigits(locCalls[i])

C11_Witness ==
    /\ rvPc = "done"
    /\ rvReq.via = "client"
    /\ rvReq.method = "POST"
    /\ rvReq.body = Body("object", "string", <<48, 49, 48, 48, 49, 48, 48, 48, 10>>)
    /\ rvW.status = StatusUnprocessableEntity
    /\ locCalls = <<>>

\* the Gateway's call to the Resolver failed at the transport level
ForwardFailure == gwFwd \in {"doErr", "readErr"}

\* at most one call of each kind per request
AtMostOneCallEach ==
    /\ gwCalls <= 1
    /\ Len(locCalls) <= 1
    /\ Len(wxCalls) <= 1

\* a request whose upstream call failed has ended, with the error message written
FailureIsTerminal ==
    /\ ForwardFailure =>
          /\ gwPc = "done"
          /\ gwCalls = 1
          /\ ~gwW.broken => gwW.body = ErrorBody("internal server error")
    /\ (LocationNotFound \/ LocationOtherFailure) =>
          /\ rvPc = "done"
          /\ Len(locCalls) = 1
          /\ wxCalls = <<>>
          /\ Len(rvW.body) = 1
          /\ rvW.body[1].kind = "error"
    /\ WeatherFailure =>
          /\ rvPc = "done"
          /\ Len(locCalls) = 1
          /\ Len(wxCalls) = 1
          /\ rvW.body = ErrorBody("internal server error")

\* a step that issues a call starts from a request that has issued none of that kind
\* and seen no failure, and does not itself end in a failure
NoCallAfterFailure ==
    /\ gwCalls' > gwCalls => (gwCalls = 0 /\ gwFwd = "none" /\ gwFwd' = "none")
    /\ Len(locCalls') > Len(locCalls) =>
          /\ locCalls = <<>>
          /\ locReply.kind = "none"
          /\ locReply'.kind = "none"
    /\ Len(wxCalls') > Len(wxCalls) =>
          /\ wxCalls = <<>>
          /\ wxReply.kind = "none"
          /\ wxReply'.kind = "none"
          /\ ~(LocationNotFound \/ LocationOtherFailure)'

\* C12: no retries: per request the Gateway issues at most one call to the Resolver
\* and the Resolver at most one ViaCEP and one WeatherAPI call; after an upstream
\* failure the service issues no further call for that request, which ends with the
\* error response.
C12_NoRetries ==
    /\ [](AtMostOneCallEach /\ FailureIsTerminal)
    /\ [][NoCallAfterFailure]_vars

C12_Witness ==
    /\ WeatherFailure
    /\ rvPc = "done"
    /\ gwPc = "done"
    /\ gwFwd = "ok"
    /\ gwCalls = 1
    /\ Len(locCalls) = 1
    /\ Len(wxCalls) = 1
    /\ gwW.status = StatusInternalServerError

\* a ViaCEP call was issued and client.Do has not returned
LocationInFlight == Len(locCalls) > 0 /\ locReply.kind = "none"

\* a WeatherAPI call was issued and client.Do has not returned
WeatherInFlight == Len(wxCalls) > 0 /\ wxReply.kind = "none"

\* C13: within one Resolver request the weather step (the WeatherAPI call or the mock
\* branch) starts only after ViaCEP's call has returned a location, is keyed by that
\* location, and the two calls are never in flight together.
C13_LookupsSequential ==
    /\ ~(LocationInFlight /\ WeatherInFlight)
    /\ LocationInFlight => (wxCalls = <<>> /\ ~rvW.wroteHeader /\ rvPc = "awaitLocation")
    /\ wxCalls # <<>> =>
          /\ LocationResolved
          /\ location = locReply.localidade
          /\ \A i \in 1..Len(wxCalls) :
                wxCalls[i].q = locReply.localidade /\ wxCalls[i].key = apiKey
    /\ (rvW.status = StatusOK /\ wxCalls = <<>>) =>
          /\ LocationResolved
          /\ rvW.body[1].city = locReply.localidade

C13_Witness ==
    /\ rvPc = "awaitWeather"
    /\ WeatherInFlight
    /\ ~LocationInFlight
    /\ locReply.localidade = "Curitiba"
    /\ wxCalls[1].q = "Curitiba"

ErrorStatuses ==
    {StatusMethodNotAllowed, StatusBadRequest, StatusUnprocessableEntity,
     StatusNotFound, StatusInternalServerError}

CanonicalMessages ==
    {"Method not allowed", "invalid request body", "invalid zipcode",
     "can not find zipcode", "internal server error"}

\* an error was recorded on the span before the response's status line went out
RecordedBeforeResponse(span) == \E i \in 1..Len(span) : ~span[i].headerWritten

\* the response carries one canonical message, which is no recorded error's text
MessageHidesDetail(w, span) ==
    /\ Len(w.body) = 1
    /\ w.body[1].message \in CanonicalMessages
    /\ \A i \in 1..Len(span) : span[i].detail # w.body[1].message

\* C14: every request that a service ends with an error response of its own (405, 400,
\* 422, 404 or 500) has an error recorded on its span before the response is written,
\* and the message sent is canonical and is not the recorded error's text.
C14_ErrorsRecordedBeforeResponse ==
    /\ (gwPc = "done" /\ gwFwd # "ok" /\ ~gwW.broken /\ gwW.status \in ErrorStatuses)
          => (RecordedBeforeResponse(gwSpan) /\ MessageHidesDetail(gwW, gwSpan))
    /\ (rvPc = "done" /\ rvW.status \in ErrorStatuses)
          => (RecordedBeforeResponse(rvSpan) /\ MessageHidesDetail(rvW, rvSpan))

====
